---- MODULE Spec2Model ----
(***************************************************************************)
(* WA bulk billing tracker: the three scripts                              *)
(*   wa_bulk_billing_FIXED.py              (variant "FIXED")               *)
(*   wa_bulk_billing_STATE_AND_FEDERAL.py  (variant "STATE_AND_FEDERAL")   *)
(*   wa_bulk_billing_BETTER_ADDRESSES.py   (variant "BETTER_ADDRESSES")    *)
(* modelled as one state machine with a variant selector.                  *)
(*                                                                         *)
(* Text is a sequence of tokens (words, numbers, single whitespace         *)
(* characters); str.lower, str.strip, str.split/join and the regular       *)
(* expressions of the scripts are computed on those tokens.                *)
(***************************************************************************)
EXTENDS Integers, Sequences, FiniteSets, TLC

VARIABLES
    variant,            \* which of the three scripts runs
    pc,                 \* position of the script
    state_csv,          \* content of the state CSV file (input)
    federal_csv,        \* content of the federal CSV file (input)
    state_mapping,      \* self.state_mapping / self.electorate_mapping
    state_suburb_list,  \* self.state_suburb_list / self.suburb_postcode_list
    federal_mapping,    \* self.federal_mapping
    results,            \* self.results
    i,                  \* index of run()'s loop over the suburb list
    clinic_links,       \* clinic_links of the search in progress
    j,                  \* index of search_gp_clinics' loop over clinic_links
    output,             \* the document written by save_results
    last,               \* the last fetch made and how it ended
    call,               \* the function applied last (function-level checks)
    arg,                \* its argument
    ret                 \* its return value

vars == <<variant, pc, state_csv, federal_csv, state_mapping, state_suburb_list,
          federal_mapping, results, i, clinic_links, j, output, last, call, arg, ret>>

Variants == {"FIXED", "STATE_AND_FEDERAL", "BETTER_ADDRESSES"}

None == "None"
Unknown == "Unknown"

\* an optional text: Some(text), or Absent for Python's None
Some(text) == [ok |-> TRUE, text |-> text]
Absent == [ok |-> FALSE, text |-> <<>>]

-----------------------------------------------------------------------------
(* Text *)

WS == {" ", "\n"}

\* str.lower() of one token
LowerTok(t) ==
    CASE t \in {"Perth", "PERTH"} -> "perth"
      [] t \in {"Subiaco", "SUBIACO"} -> "subiaco"
      [] t \in {"East", "EAST"} -> "east"
      [] t \in {"Main", "MAIN"} -> "main"
      [] t \in {"St", "ST"} -> "st"
      [] t = "Street," -> "street,"
      [] t = "WA" -> "wa"
      [] t = "Clinic" -> "clinic"
      [] t = "Phone:" -> "phone:"
      [] t = "Bulk billing only" -> "bulk billing only"
      [] t = "Mixed Billing" -> "mixed billing"
      [] t = "Fees Apply" -> "fees apply"
      [] OTHER -> t

\* str.lower()
Lower(s) == [k \in 1..Len(s) |-> LowerTok(s[k])]

RECURSIVE LStrip(_)
LStrip(s) == IF s # <<>> /\ Head(s) \in WS THEN LStrip(Tail(s)) ELSE s

RECURSIVE RStrip(_)
RStrip(s) ==
    IF s # <<>> /\ s[Len(s)] \in WS THEN RStrip(SubSeq(s, 1, Len(s) - 1)) ELSE s

\* str.strip()
Strip(s) == RStrip(LStrip(s))

\* suburb.lower().strip()
Normalize(s) == Strip(Lower(s))

-----------------------------------------------------------------------------
(* Reference tables *)

RECURSIVE LoadStateRows(_, _, _)
\* the loop of load_state_mapping: mapping[postcode].append(...) and
\* suburb_list.append(...) for every row, in file order
LoadStateRows(rows, mapping, suburb_list) ==
    IF rows = <<>> THEN [mapping |-> mapping, suburb_list |-> suburb_list]
    ELSE LET row == Head(rows)
             entry == [electorate |-> row.Electorate, suburb |-> row.Suburb]
             old == IF row.Postcode \in DOMAIN mapping
                    THEN mapping[row.Postcode] ELSE <<>>
             mapping2 == [p \in DOMAIN mapping \cup {row.Postcode} |->
                            IF p = row.Postcode THEN Append(old, entry)
                            ELSE mapping[p]]
         IN LoadStateRows(Tail(rows), mapping2,
                Append(suburb_list, [suburb |-> row.Suburb,
                                     postcode |-> row.Postcode,
                                     state_electorate |-> row.Electorate]))

\* load_state_mapping on a readable file
load_state_mapping(csv) == LoadStateRows(csv.rows, <<>>, <<>>)

\* the key of the federal table
FederalKey(postcode, suburb) == <<postcode, "_">> \o Normalize(suburb)

RECURSIVE LoadFederalRows(_, _)
\* the loop of load_federal_mapping: mapping[key] = federal_electorate
LoadFederalRows(rows, mapping) ==
    IF rows = <<>> THEN mapping
    ELSE LET row == Head(rows)
             key == FederalKey(row.Postcode, row.Suburb)
         IN LoadFederalRows(Tail(rows),
                [k \in DOMAIN mapping \cup {key} |->
                    IF k = key THEN row.Federal_Electorate ELSE mapping[k]])

\* load_federal_mapping: {} when the file cannot be read
load_federal_mapping(csv) ==
    IF csv.ok THEN LoadFederalRows(csv.rows, <<>>) ELSE <<>>

-----------------------------------------------------------------------------
(* Electorate Resolver *)

RECURSIVE FirstMatch(_, _)
\* the for loop of get_state_electorate: the first entry whose normalized
\* suburb equals the normalized query, or None
FirstMatch(entries, suburb_normalized) ==
    IF entries = <<>> THEN None
    ELSE IF Normalize(Head(entries).suburb) = suburb_normalized
         THEN Head(entries).electorate
         ELSE FirstMatch(Tail(entries), suburb_normalized)

\* a resolver that guesses a district for a postcode it does not know
StateElectorateGuessing(mapping, postcode, suburb) ==
    IF postcode \notin DOMAIN mapping
    THEN IF DOMAIN mapping = {} THEN Unknown
         ELSE mapping[CHOOSE p \in DOMAIN mapping : TRUE][1].electorate
    ELSE LET m == FirstMatch(mapping[postcode], Normalize(suburb))
         IN IF m # None THEN m ELSE mapping[postcode][1].electorate

\* a resolver that falls back to the last entry of the postcode
StateElectorateLastEntry(mapping, postcode, suburb) ==
    IF postcode \notin DOMAIN mapping THEN Unknown
    ELSE LET m == FirstMatch(mapping[postcode], Normalize(suburb))
         IN IF m # None THEN m
            ELSE mapping[postcode][Len(mapping[postcode])].electorate

get_state_electorate(mapping, postcode, suburb) ==
    IF postcode \notin DOMAIN mapping THEN Unknown
    ELSE LET m == FirstMatch(mapping[postcode], Normalize(suburb))
         IN IF m # None THEN m ELSE mapping[postcode][1].electorate

\* a federal resolver that falls back to any suburb of the postcode
FederalElectorateFallback(mapping, postcode, suburb) ==
    LET key == FederalKey(postcode, suburb)
        same == {k \in DOMAIN mapping : k[1] = postcode}
    IN IF key \in DOMAIN mapping THEN mapping[key]
       ELSE IF same # {} THEN mapping[CHOOSE k \in same : TRUE]
       ELSE Unknown

get_federal_electorate(mapping, postcode, suburb) ==
    LET key == FederalKey(postcode, suburb)
    IN IF key \in DOMAIN mapping THEN mapping[key] ELSE Unknown

-----------------------------------------------------------------------------
(* Text measures and the regular expressions of get_clinic_details *)

\* len() of one token
TokLen(t) ==
    CASE t \in WS -> 1
      [] t \in {"12", "08", "St", "ST", "WA", "wa"} -> 2
      [] t \in {"6000", "6008", "9300", "1234", "Main", "MAIN", "East", "EAST",
                "east", "SWAN"} -> 4
      [] t \in {"Perth", "PERTH", "perth"} -> 5
      [] t \in {"Clinic", "Phone:"} -> 6
      [] t \in {"Subiaco", "SUBIACO", "subiaco", "Street,"} -> 7
      [] t = "Address:" -> 8
      [] t = "0893001234" -> 10
      [] t = "x" -> 1
      [] OTHER -> 14

RECURSIVE TextLen(_)
\* len()
TextLen(s) == IF s = <<>> THEN 0 ELSE TokLen(Head(s)) + TextLen(Tail(s))

RECURSIVE Collapse(_)
\* ' '.join(text.split()) on a text without leading whitespace
Collapse(s) ==
    IF s = <<>> THEN <<>>
    ELSE IF Head(s) \in WS
         THEN LET rest == LStrip(s)
              IN IF rest = <<>> THEN <<>> ELSE <<" ">> \o Collapse(rest)
         ELSE <<Head(s)>> \o Collapse(Tail(s))

\* ' '.join(text.split())
JoinSplit(s) == Collapse(LStrip(s))

\* number of digits of a token made of digits only, else 0
Digits(t) ==
    CASE t \in {"12", "08"} -> 2
      [] t \in {"6000", "6008", "9300", "1234"} -> 4
      [] t = "0893001234" -> 10
      [] OTHER -> 0

\* tokens made of the letters A-Z only
UpperWord == {"PERTH", "SUBIACO", "EAST", "MAIN", "ST", "WA", "SWAN"}

\* tokens made of letters only
AlphaWord == UpperWord \cup {"Perth", "perth", "Subiaco", "subiaco", "East", "east",
                             "Main", "St", "wa", "Clinic"}

\* 'WA' in token
HasWA(t) == t \in {"WA", "SWAN"}

\* the token ends with WA, case-insensitively
EndsWAci(t) == t \in {"WA", "wa"}

\* index of the first non-whitespace token at or after k (Len(s)+1 when none)
RECURSIVE SkipWS(_, _)
SkipWS(s, k) == IF k <= Len(s) /\ s[k] \in WS THEN SkipWS(s, k + 1) ELSE k

\* a match of WA\s+\d{4} whose WA ends token w: the index of the postcode token, or 0
PostcodeAfter(s, w) ==
    LET d == SkipWS(s, w + 1)
    IN IF w + 1 <= Len(s) /\ s[w + 1] \in WS /\ d <= Len(s) /\ Digits(s[d]) >= 4
       THEN d ELSE 0

\* a search that takes the last standalone 4-digit run
PostcodeMatchLast(s) ==
    LET hits == {k \in 1..Len(s) : Digits(s[k]) = 4}
    IN IF hits = {} THEN None
       ELSE s[CHOOSE k \in hits : \A m \in hits : m <= k]

\* re.search(r'\b(\d{4})\b', address_text): the first standalone 4-digit run
PostcodeMatch(s) ==
    LET hits == {k \in 1..Len(s) : Digits(s[k]) = 4}
    IN IF hits = {} THEN None
       ELSE s[CHOOSE k \in hits : \A m \in hits : k <= m]

RECURSIVE RunStart(_, _)
\* the start of the run of [A-Z\s] characters that ends at token k
RunStart(s, k) ==
    IF k > 1 /\ (s[k - 1] \in UpperWord \/ s[k - 1] \in WS)
    THEN RunStart(s, k - 1) ELSE k

\* re.search(r'([A-Z][A-Z\s]+)\s+WA\s+\d{4}', address_text), group(1).strip():
\* case-sensitive, so only a run of upper-case words before WA matches
SuburbMatch(s) ==
    LET hits == {w \in 2..Len(s) :
                    /\ s[w] = "WA"
                    /\ s[w - 1] \in WS
                    /\ PostcodeAfter(s, w) # 0
                    /\ LET u == SkipWS(s, RunStart(s, w))
                       IN u < w /\ s[u] \in UpperWord}
    IN IF hits = {} THEN Absent
       ELSE LET w == CHOOSE k \in hits : \A m \in hits : k <= m
                u == SkipWS(s, RunStart(s, w))
            IN Some(Strip(SubSeq(s, u, w - 1)))

-----------------------------------------------------------------------------
(* Documents.  A parsed page is a record:                                  *)
(*   h          texts of the h1/h2 elements, h1 first                      *)
(*   address    texts of the <address> elements, in document order         *)
(*   blocks     [tag, text] of the p/div/span elements, in document order  *)
(*   directions the map links: [has_container, container], the text of the *)
(*              nearest div/section/article above the link                 *)
(*   ld_json    the ld+json scripts: [valid, has_address, address]         *)
(*   tel        texts of the tel: links, in document order                 *)
(*   body       the remaining page text                                    *)

AddrMinLen == 10
M5MinLen == 15

RECURSIVE Concat(_)
\* the texts of a sequence of elements, one per line
Concat(texts) ==
    IF texts = <<>> THEN <<>>
    ELSE Head(texts) \o <<"\n">> \o Concat(Tail(texts))

\* soup.get_text(): scripts are not text
PageText(doc) ==
    Concat(doc.h)
    \o Concat(doc.address)
    \o Concat([k \in 1..Len(doc.blocks) |-> doc.blocks[k].text])
    \o Concat([k \in 1..Len(doc.directions) |-> doc.directions[k].container])
    \o Concat(doc.tel)
    \o doc.body

\* METHOD 1: the first <address> element, accepted when long enough and with WA
Method1(doc) ==
    IF doc.address = <<>> THEN Absent
    ELSE LET address_text == JoinSplit(Strip(doc.address[1]))
         IN IF TextLen(address_text) > AddrMinLen
               /\ \E k \in 1..Len(address_text) : HasWA(address_text[k])
            THEN Some(address_text) ELSE Absent

\* tokens holding a street type (Street|St|Road|...|Cres, any case) after at
\* least two letters
StreetInner == {"East", "EAST", "east", "Address:"}

\* tokens holding a street type after letters only
StreetAny == StreetInner \cup {"Street,", "St", "ST", "Get directions"}

\* re.search(r'\d+\s+[A-Z][a-zA-Z\s]+(?:Street|St|...).*WA\s+\d{4}', text,
\* re.IGNORECASE): '.' does not match a newline
StreetPattern(s) ==
    \E a \in 1..Len(s) :
        /\ Digits(s[a]) > 0
        /\ a + 1 <= Len(s) /\ s[a + 1] \in WS
        /\ LET f == SkipWS(s, a + 1)
           IN /\ f <= Len(s)
              /\ s[f] \in AlphaWord \cup StreetAny
              /\ \E st \in f..Len(s) :
                    /\ \/ st = f /\ s[f] \in StreetInner
                       \/ /\ st > f
                          /\ s[st] \in StreetAny
                          /\ \A k \in f..(st - 1) : s[k] \in AlphaWord \cup WS
                    /\ \E w \in (st + 1)..Len(s) :
                          /\ EndsWAci(s[w])
                          /\ PostcodeAfter(s, w) # 0
                          /\ \A k \in (st + 1)..(w - 1) : s[k] # "\n"

RECURSIVE Method2Scan(_)
\* METHOD 2: the first p/div/span whose text has the street pattern
Method2Scan(blocks) ==
    IF blocks = <<>> THEN Absent
    ELSE LET text == Strip(Head(blocks).text)
         IN IF StreetPattern(text) THEN Some(JoinSplit(text))
            ELSE Method2Scan(Tail(blocks))

Method2(doc) == Method2Scan(doc.blocks)

\* METHOD 3: re.search(r'(?:Address[:\s]*)?([^*]+WA\s+\d{4})', text, IGNORECASE),
\* where * stands for the middle dot, which no text of the model holds,
\* on the text of the container of the map link; the group is greedy, so it
\* runs to the last WA + postcode
Method3(doc) ==
    IF doc.directions = <<>> \/ ~doc.directions[1].has_container THEN Absent
    ELSE LET text == Strip(doc.directions[1].container)
             labelled == text # <<>> /\ text[1] = "Address:"
             b == IF labelled THEN SkipWS(text, 2) ELSE 1
             all == {w \in 2..Len(text) :
                        EndsWAci(text[w]) /\ PostcodeAfter(text, w) # 0}
         IN IF all = {} THEN Absent
            ELSE LET w == CHOOSE k \in all : \A m \in all : m <= k
                     from == IF w > b THEN b ELSE IF labelled THEN 2 ELSE 1
                 IN Some(Strip(SubSeq(text, from, PostcodeAfter(text, w))))

RECURSIVE Method4Scan(_)
\* METHOD 4: the first ld+json script with an address object that has a
\* street and a locality
Method4Scan(scripts) ==
    IF scripts = <<>> THEN Absent
    ELSE LET data == Head(scripts)
         IN IF data.valid /\ data.has_address
               /\ data.address.streetAddress # <<>>
               /\ data.address.addressLocality # <<>>
            THEN Some(Strip(data.address.streetAddress \o <<",", " ">>
                       \o data.address.addressLocality \o <<" ">>
                       \o data.address.addressRegion \o <<" ">>
                       \o data.address.postalCode))
            ELSE Method4Scan(Tail(scripts))

Method4(doc) == Method4Scan(doc.ld_json)

\* tokens whose lower case holds one of street, st, road, rd, avenue, ave,
\* drive, dr
M5Keyword == {"Street,", "St", "ST", "East", "EAST", "east", "Address:"}

RECURSIVE Method5Scan(_, _)
\* METHOD 5: the matches of r'([^\.]+?\d+[^\.]*?WA\s+\d{4})' in the page text
\* from token p on, in order; the first one long enough and with a keyword
Method5Scan(s, p) ==
    LET ends == {w \in (p + 1)..Len(s) :
                    /\ EndsWAci(s[w])
                    /\ PostcodeAfter(s, w) # 0
                    /\ \E q \in p..(w - 1) :
                          Digits(s[q]) > 0 /\ (q > p \/ Digits(s[q]) >= 2)}
    IN IF ends = {} THEN Absent
       ELSE LET w == CHOOSE k \in ends : \A m \in ends : k <= m
                d == PostcodeAfter(s, w)
                match == Strip(SubSeq(s, p, d))
            IN IF TextLen(match) > M5MinLen
                  /\ \E k \in 1..Len(match) : match[k] \in M5Keyword
               THEN Some(JoinSplit(match))
               ELSE Method5Scan(s, d + 1)

Method5(doc) == Method5Scan(PageText(doc), 1)

\* a cascade that scans the text blocks before the <address> element
ExtractAddressBlocksFirst(doc) ==
    IF Method2(doc).ok THEN Method2(doc)
    ELSE IF Method1(doc).ok THEN Method1(doc)
    ELSE IF Method3(doc).ok THEN Method3(doc)
    ELSE IF Method4(doc).ok THEN Method4(doc)
    ELSE Method5(doc)

\* the cascade of extract_address_better
extract_address_better(doc) ==
    IF Method1(doc).ok THEN Method1(doc)
    ELSE IF Method2(doc).ok THEN Method2(doc)
    ELSE IF Method3(doc).ok THEN Method3(doc)
    ELSE IF Method4(doc).ok THEN Method4(doc)
    ELSE Method5(doc)

-----------------------------------------------------------------------------
(* Phone, billing and the clinic record *)

\* the last two digits of a digit token
Suffix2(t) ==
    CASE t \in {"6000", "9300"} -> "00"
      [] t = "6008" -> "08"
      [] t \in {"1234", "0893001234"} -> "34"
      [] OTHER -> t

\* the first four digits of a digit token
Prefix4(t) == IF t = "0893001234" THEN "0893" ELSE t

\* re.search(r'(\d{2}\s?\d{4}\s?\d{4})', text), group(1): the leftmost run of
\* two, four and four digits with at most one whitespace character between
PhoneMatch(s) ==
    LET whole(a) == Digits(s[a]) >= 10
        split3(a) == /\ a + 4 <= Len(s)
                     /\ Digits(s[a]) >= 2
                     /\ s[a + 1] \in WS
                     /\ Digits(s[a + 2]) = 4
                     /\ s[a + 3] \in WS
                     /\ Digits(s[a + 4]) >= 4
        split2a(a) == /\ a + 2 <= Len(s)
                      /\ Digits(s[a]) >= 2
                      /\ s[a + 1] \in WS
                      /\ Digits(s[a + 2]) >= 8
        split2b(a) == /\ a + 2 <= Len(s)
                      /\ Digits(s[a]) >= 6
                      /\ s[a + 1] \in WS
                      /\ Digits(s[a + 2]) >= 4
        hits == {a \in 1..Len(s) : whole(a) \/ split3(a) \/ split2a(a) \/ split2b(a)}
    IN IF hits = {} THEN Absent
       ELSE LET a == CHOOSE k \in hits : \A m \in hits : k <= m
            IN IF whole(a) THEN Some(<<s[a]>>)
               ELSE IF split2b(a) THEN Some(<<"001234", s[a + 1], Prefix4(s[a + 2])>>)
               ELSE IF split2a(a) THEN Some(<<Suffix2(s[a]), s[a + 1], "08930012">>)
               ELSE Some(<<Suffix2(s[a]), s[a + 1], s[a + 2], s[a + 3],
                           Prefix4(s[a + 4])>>)

\* the phone of get_clinic_details: the first tel: link, else (not in
\* STATE_AND_FEDERAL) the first phone pattern of the page text, else N/A
ExtractPhone(v, doc) ==
    IF doc.tel # <<>> THEN Strip(doc.tel[1])
    ELSE IF v # "STATE_AND_FEDERAL" /\ PhoneMatch(PageText(doc)).ok
         THEN PhoneMatch(PageText(doc)).text
         ELSE <<"N/A">>

\* keyword in page_text
Has(page_text, keyword) == \E k \in 1..Len(page_text) : page_text[k] = keyword

FullyBulkBilled == "100% Bulk Billed"
MixedBilling == "Mixed Billing"
PrivateBilling == "Private Billing"

\* a chain that tests "fees apply" and "private billing" before "mixed billing"
ClassifyBillingPrivateFirst(page_text) ==
    IF \/ Has(page_text, "bulk billing only")
       \/ Has(page_text, "100% bulk bill") \/ Has(page_text, "fully bulk billed")
       \/ Has(page_text, "bulk bills all patients")
    THEN [is_bulk_billed |-> TRUE, billing_status |-> FullyBulkBilled]
    ELSE IF Has(page_text, "fees apply") \/ Has(page_text, "private billing")
    THEN [is_bulk_billed |-> FALSE, billing_status |-> PrivateBilling]
    ELSE IF Has(page_text, "mixed billing")
    THEN [is_bulk_billed |-> FALSE, billing_status |-> MixedBilling]
    ELSE [is_bulk_billed |-> FALSE, billing_status |-> Unknown]

\* a chain that counts a clinic with mixed billing as one that bulk bills
ClassifyBillingMixedCounts(page_text) ==
    IF \/ Has(page_text, "bulk billing only")
       \/ Has(page_text, "100% bulk bill") \/ Has(page_text, "fully bulk billed")
       \/ Has(page_text, "bulk bills all patients")
    THEN [is_bulk_billed |-> TRUE, billing_status |-> FullyBulkBilled]
    ELSE IF Has(page_text, "mixed billing")
    THEN [is_bulk_billed |-> TRUE, billing_status |-> MixedBilling]
    ELSE IF Has(page_text, "fees apply") \/ Has(page_text, "private billing")
    THEN [is_bulk_billed |-> FALSE, billing_status |-> PrivateBilling]
    ELSE [is_bulk_billed |-> FALSE, billing_status |-> Unknown]

\* the if/elif chain of get_clinic_details on soup.get_text().lower()
ClassifyBilling(page_text) ==
    IF Has(page_text, "bulk billing only")
    THEN [is_bulk_billed |-> TRUE, billing_status |-> FullyBulkBilled]
    ELSE IF Has(page_text, "100% bulk bill") \/ Has(page_text, "fully bulk billed")
    THEN [is_bulk_billed |-> TRUE, billing_status |-> FullyBulkBilled]
    ELSE IF Has(page_text, "bulk bills all patients")
    THEN [is_bulk_billed |-> TRUE, billing_status |-> FullyBulkBilled]
    ELSE IF Has(page_text, "mixed billing")
    THEN [is_bulk_billed |-> FALSE, billing_status |-> MixedBilling]
    ELSE IF Has(page_text, "fees apply") \/ Has(page_text, "private billing")
    THEN [is_bulk_billed |-> FALSE, billing_status |-> PrivateBilling]
    ELSE [is_bulk_billed |-> FALSE, billing_status |-> Unknown]

RECURSIVE FixedBlockScan(_)
\* FIXED: the first p/div whose text has WA and a digit
FixedBlockScan(blocks) ==
    IF blocks = <<>> THEN <<>>
    ELSE LET text == Head(blocks).text
         IN IF /\ Head(blocks).tag \in {"p", "div"}
               /\ \E k \in 1..Len(text) : HasWA(text[k])
               /\ \E k \in 1..Len(text) : Digits(text[k]) > 0
            THEN Strip(text)
            ELSE FixedBlockScan(Tail(blocks))

\* address_text of get_clinic_details before the suburb/postcode extraction
\* ("" and None are both <<>>: the code only tests its truth)
AddressText(v, doc) ==
    IF v = "BETTER_ADDRESSES" THEN extract_address_better(doc).text
    ELSE IF doc.address # <<>> THEN Strip(doc.address[1])
    ELSE IF v = "FIXED" THEN FixedBlockScan(doc.blocks)
    ELSE <<>>

\* the suburb of the record
RecordSuburb(address_text, search_suburb) ==
    IF address_text # <<>> /\ SuburbMatch(address_text).ok
    THEN SuburbMatch(address_text).text ELSE search_suburb

\* the postcode of the record
RecordPostcode(address_text, search_postcode) ==
    IF address_text # <<>> /\ PostcodeMatch(address_text) # None
    THEN PostcodeMatch(address_text) ELSE search_postcode

\* the clinic_data of get_clinic_details for a fetched and parsed page;
\* last_checked, the time of the fetch, is left out, and the state district
\* is held under state_electorate (FIXED stores it under 'electorate')
get_clinic_details(v, doc, url, search_postcode, search_suburb, state_electorate, fmapping) ==
    LET address_text == AddressText(v, doc)
        suburb == RecordSuburb(address_text, search_suburb)
        postcode == RecordPostcode(address_text, search_postcode)
        billing == ClassifyBilling(Lower(PageText(doc)))
        base == [name |-> IF doc.h = <<>> THEN <<Unknown>> ELSE Strip(doc.h[1]),
                 address |-> IF address_text # <<>> THEN address_text
                             ELSE IF v = "BETTER_ADDRESSES"
                                  THEN search_suburb \o <<",", " ", "WA", " ",
                                                          search_postcode>>
                                  ELSE <<Unknown>>,
                 suburb |-> suburb,
                 postcode |-> postcode,
                 state_electorate |-> state_electorate,
                 phone |-> ExtractPhone(v, doc),
                 url |-> url,
                 is_bulk_billed |-> billing.is_bulk_billed,
                 billing_status |-> billing.billing_status]
    IN IF v = "FIXED" THEN base
       ELSE [k \in DOMAIN base \cup {"federal_electorate"} |->
                IF k = "federal_electorate"
                THEN get_federal_electorate(fmapping, postcode, suburb)
                ELSE base[k]]

-----------------------------------------------------------------------------
(* save_results *)

RECURSIVE Unique(_, _)
\* the loop over self.results that fills unique_results: a clinic is kept
\* when its url is not a key yet; list(unique_results.values())
Unique(clinics, kept) ==
    IF clinics = <<>> THEN kept
    ELSE IF \E k \in 1..Len(kept) : kept[k].url = Head(clinics).url
         THEN Unique(Tail(clinics), kept)
         ELSE Unique(Tail(clinics), Append(kept, Head(clinics)))

RECURSIVE UniqueLatest(_, _)
\* a loop that overwrites the clinic kept for a url: the last one wins
UniqueLatest(clinics, kept) ==
    IF clinics = <<>> THEN kept
    ELSE IF \E k \in 1..Len(kept) : kept[k].url = Head(clinics).url
         THEN UniqueLatest(Tail(clinics),
                  [k \in 1..Len(kept) |->
                      IF kept[k].url = Head(clinics).url THEN Head(clinics)
                      ELSE kept[k]])
         ELSE UniqueLatest(Tail(clinics), Append(kept, Head(clinics)))

RemoveDuplicatesKeepLatest(clinics) == UniqueLatest(clinics, <<>>)

RemoveDuplicates(clinics) == Unique(clinics, <<>>)

RECURSIVE GroupOverwrites(_, _, _)
\* a grouping that assigns the clinic to its district's key: by[e] = [clinic]
GroupOverwrites(clinics, axis, by) ==
    IF clinics = <<>> THEN by
    ELSE LET clinic == Head(clinics)
             e == clinic[axis]
         IN GroupOverwrites(Tail(clinics), axis,
                [d \in DOMAIN by \cup {e} |-> IF d = e THEN <<clinic>> ELSE by[d]])

RECURSIVE Group(_, _, _)
\* by_state[state_elect].append(clinic) / by_federal[...].append(clinic)
Group(clinics, axis, by) ==
    IF clinics = <<>> THEN by
    ELSE LET clinic == Head(clinics)
             e == clinic[axis]
             old == IF e \in DOMAIN by THEN by[e] ELSE <<>>
         IN Group(Tail(clinics), axis,
                  [d \in DOMAIN by \cup {e} |->
                      IF d = e THEN Append(old, clinic) ELSE by[d]])

RECURSIVE CountBulkBilledLeading(_)
\* a count that stops at the first clinic that is not bulk billed
CountBulkBilledLeading(clinics) ==
    IF clinics = <<>> \/ ~Head(clinics).is_bulk_billed THEN 0
    ELSE 1 + CountBulkBilledLeading(Tail(clinics))

RECURSIVE CountBulkBilled(_)
\* bulk_billed_count += 1 for every clinic with is_bulk_billed;
\* len([c for c in clinics if c.get('is_bulk_billed')])
CountBulkBilled(clinics) ==
    IF clinics = <<>> THEN 0
    ELSE (IF Head(clinics).is_bulk_billed THEN 1 ELSE 0) + CountBulkBilled(Tail(clinics))

\* a percentage cut, not rounded, to one decimal place
PercentageTruncated(bulk_billed, total) == (1000 * bulk_billed) \div total

\* round(bulk_billed / total * 100, 1), in tenths of a percent: Python rounds
\* to the nearest tenth, a tie to the even one (the float quotient is an exact
\* tie whenever the fraction is, for every total below 80)
Percentage(bulk_billed, total) ==
    LET q == (1000 * bulk_billed) \div total
        r == (1000 * bulk_billed) % total
    IN IF 2 * r > total THEN q + 1
       ELSE IF 2 * r < total THEN q
       ELSE IF q % 2 = 0 THEN q ELSE q + 1

\* the statistics of one electorate
Stats(clinics) ==
    [total_clinics |-> Len(clinics),
     bulk_billed_clinics |-> CountBulkBilled(clinics),
     percentage |-> IF clinics # <<>>
                    THEN Percentage(CountBulkBilled(clinics), Len(clinics)) ELSE 0]

\* the output document of save_results for the de-duplicated clinics;
\* last_updated, the time of the save, is left out
Output(v, clinics) ==
    LET by_state == Group(clinics, "state_electorate", <<>>)
        state_part ==
            [summary |-> [total_clinics |-> Len(clinics),
                          bulk_billed_clinics |-> CountBulkBilled(clinics),
                          state_electorates_covered |-> Cardinality(DOMAIN by_state)],
             by_state_electorate |-> by_state,
             state_electorate_stats |-> [e \in DOMAIN by_state |-> Stats(by_state[e])]]
    IN IF v = "FIXED" THEN state_part
       ELSE LET by_federal == Group(clinics, "federal_electorate", <<>>)
            IN [summary |-> [total_clinics |-> Len(clinics),
                             bulk_billed_clinics |-> CountBulkBilled(clinics),
                             state_electorates_covered |-> Cardinality(DOMAIN by_state),
                             federal_electorates_covered |->
                                 Cardinality(DOMAIN by_federal)],
                by_state_electorate |-> by_state,
                by_federal_electorate |-> by_federal,
                state_electorate_stats |->
                    [e \in DOMAIN by_state |-> Stats(by_state[e])],
                federal_electorate_stats |->
                    [e \in DOMAIN by_federal |-> Stats(by_federal[e])]]

-----------------------------------------------------------------------------
(* Inputs of the run: the CSV files, the search pages and the clinic pages *)

MaxEntries == 2

Missing == [ok |-> FALSE, rows |-> <<>>]

StateRows ==
    <<[Electorate |-> "Perth", Suburb |-> <<"Perth">>, Postcode |-> "6000"],
      [Electorate |-> "Nedlands", Suburb |-> <<"Subiaco">>, Postcode |-> "6008"],
      [Electorate |-> "Mount Lawley", Suburb |-> <<"East", " ", "Perth">>,
       Postcode |-> "6000"]>>

FederalRows ==
    <<[Federal_Electorate |-> "Perth", Suburb |-> <<"Perth">>, Postcode |-> "6000"],
      [Federal_Electorate |-> "Curtin", Suburb |-> <<"Subiaco">>, Postcode |-> "6008"]>>

Min(a, b) == IF a < b THEN a ELSE b

StateCsvs ==
    {Missing} \cup {[ok |-> TRUE, rows |-> SubSeq(StateRows, 1, n)] :
                        n \in 0..Min(MaxEntries, Len(StateRows))}

FederalCsvs == {Missing, [ok |-> TRUE, rows |-> FederalRows]}

Urls == {"/clinic-a", "/clinic-b"}

\* the clinic_links a search page can yield: no link twice
LinkLists ==
    {<<>>} \cup {<<u>> : u \in Urls}
           \cup {p \in Urls \X Urls : p[1] # p[2]}

SearchFailures == {"404", "http_error", "transport_error", "parse_error"}
ClinicFailures == {"http_error", "transport_error", "parse_error"}

NoAddress == [streetAddress |-> <<>>, addressLocality |-> <<>>,
              addressRegion |-> <<>>, postalCode |-> <<>>]

EmptyDoc == [h |-> <<>>, address |-> <<>>, blocks |-> <<>>, directions |-> <<>>,
             ld_json |-> <<>>, tel |-> <<>>, body |-> <<>>]

\* a page with an upper-case suburb in its address, a tel: link and
\* "bulk billing only"
DocBulk ==
    [EmptyDoc EXCEPT
        !.h = <<<<"Clinic">>>>,
        !.address = <<<<"12", " ", "Main", " ", "Street,", " ", "SUBIACO", " ",
                        "WA", " ", "6008">>>>,
        !.tel = <<<<"0893001234">>>>,
        !.body = <<"Bulk billing only">>]

\* a page with a capitalized suburb in its address, no tel: link, and both
\* "mixed billing" and "fees apply"
DocMixed ==
    [EmptyDoc EXCEPT
        !.h = <<<<"Clinic">>>>,
        !.address = <<<<"12", " ", "Main", " ", "Street,", " ", "Perth", " ",
                        "WA", " ", "6000">>>>,
        !.body = <<"Mixed Billing", " ", "fees apply", " ", "Phone:", " ",
                   "08", " ", "9300", " ", "1234">>]

\* a page with no address and no billing keyword
DocBare == [EmptyDoc EXCEPT !.body = <<"Clinic">>]

RunDocs == {DocBulk, DocMixed, DocBare}

-----------------------------------------------------------------------------
(* The run *)

NoEvent == [op |-> "none", idx |-> 0, link |-> 0, outcome |-> "none", input |-> <<>>]

Init ==
    /\ variant \in Variants
    /\ pc = "construct"
    /\ state_csv \in StateCsvs
    /\ federal_csv \in (IF variant = "FIXED" THEN {Missing} ELSE FederalCsvs)
    /\ state_mapping = <<>>
    /\ state_suburb_list = <<>>
    /\ federal_mapping = <<>>
    /\ results = <<>>
    /\ i = 1
    /\ clinic_links = <<>>
    /\ j = 1
    /\ output = <<>>
    /\ last = NoEvent
    /\ call = "none"
    /\ arg = <<>>
    /\ ret = <<>>

\* an __init__ that goes on with empty tables when the state file cannot be
\* loaded
ConstructWithoutStateTable ==
    /\ pc = "construct"
    /\ state_mapping' = load_state_mapping(state_csv).mapping
    /\ state_suburb_list' = load_state_mapping(state_csv).suburb_list
    /\ federal_mapping' = IF variant = "FIXED" THEN <<>>
                          ELSE load_federal_mapping(federal_csv)
    /\ pc' = "run"
    /\ UNCHANGED <<variant, state_csv, federal_csv, results, i, clinic_links, j,
                   output, last, call, arg, ret>>

\* __init__: the state file that cannot be loaded ends the process
Construct ==
    /\ pc = "construct"
    /\ IF state_csv.ok
       THEN /\ state_mapping' = load_state_mapping(state_csv).mapping
            /\ state_suburb_list' = load_state_mapping(state_csv).suburb_list
            /\ federal_mapping' = IF variant = "FIXED" THEN <<>>
                                  ELSE load_federal_mapping(federal_csv)
            /\ pc' = "run"
       ELSE /\ pc' = "exited"
            /\ UNCHANGED <<state_mapping, state_suburb_list, federal_mapping>>
    /\ UNCHANGED <<variant, state_csv, federal_csv, results, i, clinic_links, j,
                   output, last, call, arg, ret>>

\* a failed search that ends the process
SearchFailsFatal(outcome) ==
    /\ pc = "run"
    /\ i <= Len(state_suburb_list)
    /\ pc' = "exited"
    /\ last' = [op |-> "search", idx |-> i, link |-> 0, outcome |-> outcome,
                input |-> <<>>]
    /\ UNCHANGED <<variant, state_csv, federal_csv, state_mapping,
                   state_suburb_list, federal_mapping, results, i, clinic_links, j,
                   output, call, arg, ret>>

\* a failed search that is made again for the same entry
SearchFailsRetry(outcome) ==
    /\ pc = "run"
    /\ i <= Len(state_suburb_list)
    /\ last' = [op |-> "search", idx |-> i, link |-> 0, outcome |-> outcome,
                input |-> <<>>]
    /\ UNCHANGED <<variant, pc, state_csv, federal_csv, state_mapping,
                   state_suburb_list, federal_mapping, results, i, clinic_links, j,
                   output, call, arg, ret>>

\* search_gp_clinics whose request ends in 404, in an error status or in a
\* transport failure, or whose page cannot be parsed: it returns, and run()
\* goes on with the next entry
SearchFails(outcome) ==
    /\ pc = "run"
    /\ i <= Len(state_suburb_list)
    /\ i' = i + 1
    /\ last' = [op |-> "search", idx |-> i, link |-> 0, outcome |-> outcome,
                input |-> <<>>]
    /\ UNCHANGED <<variant, pc, state_csv, federal_csv, state_mapping,
                   state_suburb_list, federal_mapping, results, clinic_links, j,
                   output, call, arg, ret>>

\* search_gp_clinics up to its loop over clinic_links
SearchFinds(links) ==
    /\ pc = "run"
    /\ i <= Len(state_suburb_list)
    /\ clinic_links' = links
    /\ j' = 1
    /\ IF links = <<>> THEN pc' = "run" /\ i' = i + 1
                       ELSE pc' = "clinics" /\ i' = i
    /\ last' = [op |-> "search", idx |-> i, link |-> 0, outcome |-> "ok",
                input |-> <<>>]
    /\ UNCHANGED <<variant, state_csv, federal_csv, state_mapping,
                   state_suburb_list, federal_mapping, results, output, call, arg, ret>>

\* the end of one pass of the loop over clinic_links
NextLink ==
    /\ j' = j + 1
    /\ IF j < Len(clinic_links) THEN pc' = "clinics" /\ i' = i
                                ELSE pc' = "run" /\ i' = i + 1

\* a failed clinic page that ends the search of the suburb
ClinicFailsEndsSearch(outcome) ==
    /\ pc = "clinics"
    /\ j <= Len(clinic_links)
    /\ pc' = "run"
    /\ i' = i + 1
    /\ last' = [op |-> "clinic", idx |-> i, link |-> j, outcome |-> outcome,
                input |-> <<>>]
    /\ UNCHANGED <<variant, state_csv, federal_csv, state_mapping,
                   state_suburb_list, federal_mapping, results, clinic_links, j,
                   output, call, arg, ret>>

\* one pass of the loop: get_clinic_details fails and returns None
ClinicFails(outcome) ==
    /\ pc = "clinics"
    /\ j <= Len(clinic_links)
    /\ NextLink
    /\ last' = [op |-> "clinic", idx |-> i, link |-> j, outcome |-> outcome,
                input |-> <<>>]
    /\ UNCHANGED <<variant, state_csv, federal_csv, state_mapping,
                   state_suburb_list, federal_mapping, results, clinic_links,
                   output, call, arg, ret>>

\* a pass of the loop that writes the document after every clinic collected
ClinicFetchedSavesProgress(doc) ==
    /\ pc = "clinics"
    /\ j <= Len(clinic_links)
    /\ LET entry == state_suburb_list[i]
           collected == Append(results,
               get_clinic_details(variant, doc, clinic_links[j], entry.postcode,
                                  entry.suburb, entry.state_electorate,
                                  federal_mapping))
       IN /\ results' = collected
          /\ output' = <<Output(variant, RemoveDuplicates(collected))>>
    /\ NextLink
    /\ last' = [op |-> "clinic", idx |-> i, link |-> j, outcome |-> "ok",
                input |-> <<>>]
    /\ UNCHANGED <<variant, state_csv, federal_csv, state_mapping,
                   state_suburb_list, federal_mapping, clinic_links,
                   call, arg, ret>>

\* one pass of the loop: get_clinic_details returns clinic_data, appended
ClinicFetched(doc) ==
    /\ pc = "clinics"
    /\ j <= Len(clinic_links)
    /\ LET entry == state_suburb_list[i]
       IN results' = Append(results,
              get_clinic_details(variant, doc, clinic_links[j], entry.postcode,
                                 entry.suburb, entry.state_electorate,
                                 federal_mapping))
    /\ NextLink
    /\ last' = [op |-> "clinic", idx |-> i, link |-> j, outcome |-> "ok",
                input |-> <<>>]
    /\ UNCHANGED <<variant, state_csv, federal_csv, state_mapping,
                   state_suburb_list, federal_mapping, clinic_links, output,
                   call, arg, ret>>

\* a save that hands its records over and starts a new list
SaveResultsFlushes ==
    /\ results' = <<>>
    /\ output' = <<Output(variant, RemoveDuplicates(results))>>
    /\ last' = [op |-> "save", idx |-> 0, link |-> 0,
                outcome |-> IF variant = "FIXED" /\ results = <<>>
                            THEN "ZeroDivisionError" ELSE "ok",
                input |-> results]

\* save_results: self.results becomes the de-duplicated list, the document
\* is written; FIXED then prints bulk_billed_count / len(self.results)
SaveResults ==
    /\ results' = RemoveDuplicates(results)
    /\ output' = <<Output(variant, RemoveDuplicates(results))>>
    /\ last' = [op |-> "save", idx |-> 0, link |-> 0,
                outcome |-> IF variant = "FIXED" /\ results = <<>>
                            THEN "ZeroDivisionError" ELSE "ok",
                input |-> results]

\* run() after its loop, with clinics found
ScanCompleteSave ==
    /\ pc = "run"
    /\ i > Len(state_suburb_list)
    /\ results # <<>>
    /\ SaveResults
    /\ pc' = "done"
    /\ UNCHANGED <<variant, state_csv, federal_csv, state_mapping,
                   state_suburb_list, federal_mapping, i, clinic_links, j,
                   call, arg, ret>>

\* run() after its loop, with no clinic found: the warning, nothing written
ScanCompleteEmpty ==
    /\ pc = "run"
    /\ i > Len(state_suburb_list)
    /\ results = <<>>
    /\ pc' = "done"
    /\ last' = [op |-> "warning", idx |-> 0, link |-> 0, outcome |-> "no clinics",
                input |-> <<>>]
    /\ UNCHANGED <<variant, state_csv, federal_csv, state_mapping,
                   state_suburb_list, federal_mapping, results, i, clinic_links, j,
                   output, call, arg, ret>>

Next ==
    \/ Construct
    \/ \E outcome \in SearchFailures : SearchFails(outcome)
    \/ \E links \in LinkLists : SearchFinds(links)
    \/ \E outcome \in ClinicFailures : ClinicFails(outcome)
    \/ \E doc \in RunDocs : ClinicFetched(doc)
    \/ ScanCompleteSave
    \/ ScanCompleteEmpty

Spec == Init /\ [][Next]_vars

\* the script runs on: every request ends, by an answer or by its timeout of
\* 15 seconds, and the pauses between requests are finite
SpecLive == Init /\ [][Next]_vars /\ WF_vars(Next)

-----------------------------------------------------------------------------
(* The resolvers, applied to tables loaded from any short CSV file *)

MaxRows == 3

ResolveRows ==
    [Electorate : {"Perth", "Nedlands"},
     Suburb : {<<"Perth">>, <<"PERTH", " ">>, <<"Subiaco">>},
     Postcode : {"6000", "6008"}]

ResolveCsvs == UNION {[1..n -> ResolveRows] : n \in 0..MaxRows}

QueryPostcodes == {"6000", "6008", "6160"}
QuerySuburbs == {<<"Perth">>, <<" ", "perth">>, <<"Subiaco">>, <<"East", " ", "Perth">>}

\* the federal file that lists the same suburbs
AsFederal(rows) ==
    [k \in 1..Len(rows) |->
        [Federal_Electorate |-> IF rows[k].Electorate = "Nedlands" THEN "Curtin"
                                ELSE rows[k].Electorate,
         Suburb |-> rows[k].Suburb,
         Postcode |-> rows[k].Postcode]]

\* the state after __init__ for the two files, before run()
Constructed(v, scsv, fcsv) ==
    /\ variant = v
    /\ pc = "constructed"
    /\ state_csv = scsv
    /\ federal_csv = fcsv
    /\ state_mapping = load_state_mapping(scsv).mapping
    /\ state_suburb_list = load_state_mapping(scsv).suburb_list
    /\ federal_mapping = IF v = "FIXED" THEN <<>> ELSE load_federal_mapping(fcsv)
    /\ results = <<>>
    /\ i = 1
    /\ clinic_links = <<>>
    /\ j = 1
    /\ output = <<>>
    /\ last = NoEvent
    /\ call = "none"
    /\ arg = <<>>
    /\ ret = <<>>

InitResolve ==
    \E rows \in ResolveCsvs :
        Constructed("STATE_AND_FEDERAL", [ok |-> TRUE, rows |-> rows],
                    [ok |-> TRUE, rows |-> AsFederal(rows)])

program == <<variant, pc, state_csv, federal_csv, state_mapping, state_suburb_list,
             federal_mapping, results, i, clinic_links, j, output, last>>

CallStateResolver(postcode, suburb) ==
    /\ pc = "constructed"
    /\ call = "none"
    /\ call' = "get_state_electorate"
    /\ arg' = [postcode |-> postcode, suburb |-> suburb]
    /\ ret' = get_state_electorate(state_mapping, postcode, suburb)
    /\ UNCHANGED program

CallFederalResolver(postcode, suburb) ==
    /\ pc = "constructed"
    /\ call = "none"
    /\ call' = "get_federal_electorate"
    /\ arg' = [postcode |-> postcode, suburb |-> suburb]
    /\ ret' = get_federal_electorate(federal_mapping, postcode, suburb)
    /\ UNCHANGED program

NextResolve ==
    \/ \E postcode \in QueryPostcodes, suburb \in QuerySuburbs :
          CallStateResolver(postcode, suburb)
    \/ \E postcode \in QueryPostcodes, suburb \in QuerySuburbs :
          CallFederalResolver(postcode, suburb)

SpecResolve == InitResolve /\ [][NextResolve]_vars

-----------------------------------------------------------------------------
(* Claims about the resolvers *)

\* the rows of the state file under the postcode of the query
RowsUnder == {k \in 1..Len(state_csv.rows) : state_csv.rows[k].Postcode = arg.postcode}

\* those whose suburb, lower-cased and trimmed, is the query's
RowsMatching ==
    {k \in RowsUnder : Normalize(state_csv.rows[k].Suburb) = Normalize(arg.suburb)}

First(S) == CHOOSE k \in S : \A m \in S : k <= m
Latest(S) == CHOOSE k \in S : \A m \in S : m <= k

\* C1: for a postcode that no row of the state file has, the state resolver
\* returns "Unknown", whatever the suburb
C1_AbsentPostcodeUnknown ==
    (call = "get_state_electorate" /\ RowsUnder = {}) => ret = Unknown

C1_Witness ==
    /\ call = "get_state_electorate"
    /\ RowsUnder = {}
    /\ state_csv.rows # <<>>
    /\ \E k \in 1..Len(state_csv.rows) :
          Normalize(state_csv.rows[k].Suburb) = Normalize(arg.suburb)
    /\ ret = Unknown

\* C2: for a postcode of the state file, the state resolver returns the
\* district of the first row under the postcode whose normalized suburb is the
\* normalized query suburb, and with no such row the district of the first
\* row loaded under the postcode
C2_MatchElseFirstEntry ==
    (call = "get_state_electorate" /\ RowsUnder # {}) =>
        ret = IF RowsMatching # {}
              THEN state_csv.rows[First(RowsMatching)].Electorate
              ELSE state_csv.rows[First(RowsUnder)].Electorate

\* a query that matches no row of a postcode whose rows name two districts,
\* and a query that matches a row which is not the first under its postcode
C2_Witness ==
    /\ call = "get_state_electorate"
    /\ Cardinality(RowsUnder) >= 2
    /\ \/ /\ RowsMatching = {}
          /\ state_csv.rows[First(RowsUnder)].Electorate
                # state_csv.rows[Latest(RowsUnder)].Electorate
       \/ /\ RowsMatching # {}
          /\ First(RowsMatching) # First(RowsUnder)
          /\ ret # state_csv.rows[First(RowsUnder)].Electorate

\* the rows of the federal file with the composite key of the query
FederalRowsKeyed ==
    {k \in 1..Len(federal_csv.rows) :
        FederalKey(federal_csv.rows[k].Postcode, federal_csv.rows[k].Suburb)
            = FederalKey(arg.postcode, arg.suburb)}

\* C3: the federal resolver returns the district loaded under the composite
\* key postcode + "_" + normalized suburb, and "Unknown" for every key that no
\* row inserted, other suburbs of the same postcode notwithstanding
C3_FederalExactOnly ==
    call = "get_federal_electorate" =>
        ret = IF FederalRowsKeyed # {}
              THEN federal_csv.rows[Latest(FederalRowsKeyed)].Federal_Electorate
              ELSE Unknown

C3_Witness ==
    /\ call = "get_federal_electorate"
    /\ FederalRowsKeyed = {}
    /\ \E k \in 1..Len(federal_csv.rows) : federal_csv.rows[k].Postcode = arg.postcode
    /\ ret = Unknown

-----------------------------------------------------------------------------
(* The billing chain, applied to page texts with any set of the keywords *)

Keywords ==
    <<"bulk billing only", "100% bulk bill", "fully bulk billed",
      "bulk bills all patients", "mixed billing", "fees apply", "private billing">>

\* the keyword as a page may spell it
Spelled(keyword) ==
    CASE keyword = "bulk billing only" -> "Bulk billing only"
      [] keyword = "mixed billing" -> "Mixed Billing"
      [] keyword = "fees apply" -> "Fees Apply"
      [] OTHER -> keyword

RECURSIVE Phrases(_, _, _)
\* a text with the keywords of S, in the order of the list
Phrases(list, S, capitals) ==
    IF list = <<>> THEN <<"Clinic">>
    ELSE IF Head(list) \in S
         THEN <<IF capitals THEN Spelled(Head(list)) ELSE Head(list), "\n">>
              \o Phrases(Tail(list), S, capitals)
         ELSE Phrases(Tail(list), S, capitals)

Reverse(list) == [k \in 1..Len(list) |-> list[Len(list) + 1 - k]]

KeywordSet == {Keywords[k] : k \in 1..Len(Keywords)}

BillingTexts ==
    {Phrases(list, S, capitals) :
        list \in {Keywords, Reverse(Keywords)}, S \in SUBSET KeywordSet,
        capitals \in BOOLEAN}

InitClassify ==
    Constructed("BETTER_ADDRESSES", [ok |-> TRUE, rows |-> SubSeq(StateRows, 1, 2)],
                [ok |-> TRUE, rows |-> FederalRows])

\* page_text = soup.get_text().lower() and the chain
CallClassify(text) ==
    /\ pc = "constructed"
    /\ call = "none"
    /\ call' = "billing"
    /\ arg' = text
    /\ ret' = ClassifyBilling(Lower(text))
    /\ UNCHANGED program

NextClassify == \E text \in BillingTexts : CallClassify(text)

SpecClassify == InitClassify /\ [][NextClassify]_vars

\* the rules in their order, and what each decides
Rules ==
    <<{"bulk billing only"}, {"100% bulk bill", "fully bulk billed"},
      {"bulk bills all patients"}, {"mixed billing"},
      {"fees apply", "private billing"}>>

Decides ==
    <<[is_bulk_billed |-> TRUE, billing_status |-> "100% Bulk Billed"],
      [is_bulk_billed |-> TRUE, billing_status |-> "100% Bulk Billed"],
      [is_bulk_billed |-> TRUE, billing_status |-> "100% Bulk Billed"],
      [is_bulk_billed |-> FALSE, billing_status |-> "Mixed Billing"],
      [is_bulk_billed |-> FALSE, billing_status |-> "Private Billing"]>>

\* the rules with a keyword in the lower-cased text
Fired == {r \in 1..Len(Rules) : \E k \in 1..Len(arg) : LowerTok(arg[k]) \in Rules[r]}

\* C4: the status is the one of the first rule, in the fixed order, with a
\* keyword in the lower-cased page text, and Unknown with none
C4_FirstRuleWins ==
    call = "billing" =>
        ret = IF Fired = {}
              THEN [is_bulk_billed |-> FALSE, billing_status |-> "Unknown"]
              ELSE Decides[First(Fired)]

\* "Mixed Billing" and "Fees Apply" together, fees first in the text
C4_Witness ==
    /\ call = "billing"
    /\ Fired = {4, 5}
    /\ \E k \in 1..Len(arg), m \in 1..Len(arg) :
          k < m /\ arg[k] = "Fees Apply" /\ arg[m] = "Mixed Billing"
    /\ ret = [is_bulk_billed |-> FALSE, billing_status |-> "Mixed Billing"]

-----------------------------------------------------------------------------
(* extract_address_better, applied to pages built from a few parts *)

AddressParts ==
    LET valid == <<" ", "12", " ", "Main", " ", "Street,", "\n", " ", "PERTH", " ",
                   "WA", " ", "6000", " ">>
        short == <<"WA", " ", "6000">>
        nowa == <<"12", " ", "Main", " ", "Street,", " ", "Perth">>
    IN {<<>>, <<valid>>, <<short>>, <<nowa>>, <<short, valid>>}

BlockParts ==
    {<<>>,
     <<[tag |-> "span", text |-> <<"Clinic">>],
       [tag |-> "p", text |-> <<"12", " ", "Main", " ", "St", " ", "Subiaco", "  ",
                                 "WA", " ", "6008">>]>>,
     <<[tag |-> "div", text |-> <<"12", " ", "Main", " ", "Street,", "\n", "Perth",
                                   " ", "WA", " ", "6000">>]>>}

DirectionsParts ==
    {<<>>,
     <<[has_container |-> FALSE, container |-> <<>>]>>,
     <<[has_container |-> TRUE,
        container |-> <<"Address:", " ", "12", " ", "Main", " ", "St", " ", "PERTH",
                        " ", "WA", " ", "6000", " ", "Get directions">>]>>}

ScriptParts ==
    LET broken == [valid |-> FALSE, has_address |-> FALSE, address |-> NoAddress]
        full == [valid |-> TRUE, has_address |-> TRUE,
                 address |-> [streetAddress |-> <<"12", " ", "Main", " ", "St">>,
                              addressLocality |-> <<"Subiaco">>,
                              addressRegion |-> <<"WA">>,
                              postalCode |-> <<"6008">>]]
        nolocality == [valid |-> TRUE, has_address |-> TRUE,
                       address |-> [NoAddress EXCEPT
                                       !.streetAddress = <<"12", " ", "Main", " ", "St">>]]
    IN {<<>>, <<broken>>, <<broken, full>>, <<nolocality>>}

BodyParts ==
    {<<>>,
     <<"Clinic", " ", "12", " ", "Main", " ", "St", " ", "Perth", " ", "wa", " ", "6000">>,
     <<"Perth", " ", "WA", " ", "6000">>}

ExtractDocs ==
    {[EmptyDoc EXCEPT !.address = a, !.blocks = b, !.directions = d,
                      !.ld_json = l, !.body = t] :
        a \in AddressParts, b \in BlockParts, d \in DirectionsParts,
        l \in ScriptParts, t \in BodyParts}

InitExtract == InitClassify

CallExtract(doc) ==
    /\ pc = "constructed"
    /\ call = "none"
    /\ call' = "extract_address_better"
    /\ arg' = doc
    /\ ret' = extract_address_better(doc)
    /\ UNCHANGED program

NextExtract == \E doc \in ExtractDocs : CallExtract(doc)

SpecExtract == InitExtract /\ [][NextExtract]_vars

\* an <address> text that Method 1 accepts: collapsed, it is longer than the
\* minimum length and holds WA
Acceptable(text) ==
    /\ TextLen(JoinSplit(Strip(text))) > 10
    /\ \E k \in 1..Len(text) : text[k] \in {"WA", "SWAN"}

\* the methods that succeed on the page
Succeeding ==
    LET methods == <<Method1(arg), Method2(arg), Method3(arg), Method4(arg),
                     Method5(arg)>>
    IN {m \in 1..5 : methods[m].ok}

\* C8 as stated: with any acceptable <address> element in the page, the
\* extractor returns the collapsed text of such an element
C8_AnyAddressElement ==
    (call = "extract_address_better"
        /\ \E k \in 1..Len(arg.address) : Acceptable(arg.address[k]))
    => \E k \in 1..Len(arg.address) :
          /\ Acceptable(arg.address[k])
          /\ ret = Some(JoinSplit(Strip(arg.address[k])))

\* C8 amended: the extractor returns the result of the lowest-numbered method
\* that succeeds, None when none does; when the first <address> element of the
\* page is acceptable, that is its collapsed text, whatever else the page holds
C8_FirstAddressElement ==
    call = "extract_address_better" =>
        /\ ret = IF Succeeding = {} THEN Absent
                 ELSE <<Method1(arg), Method2(arg), Method3(arg), Method4(arg),
                        Method5(arg)>>[First(Succeeding)]
        /\ (arg.address # <<>> /\ Acceptable(arg.address[1]))
              => ret = Some(JoinSplit(Strip(arg.address[1])))

\* an acceptable first <address> element on a page where the four later
\* methods succeed too
C8_Witness ==
    /\ call = "extract_address_better"
    /\ arg.address # <<>>
    /\ Acceptable(arg.address[1])
    /\ Succeeding = 1..5
    /\ ret = Some(<<"12", " ", "Main", " ", "Street,", " ", "PERTH", " ", "WA", " ",
                    "6000">>)

-----------------------------------------------------------------------------
(* save_results, applied to any short list of collected clinics *)

MaxRecords == 3

SaveUrls == {"/clinic-a", "/clinic-b", "/clinic-c"}
SaveDocs == {DocBulk, DocMixed}

InitSave ==
    \E v \in Variants :
        Constructed(v, [ok |-> TRUE, rows |-> SubSeq(StateRows, 1, 2)],
                    [ok |-> TRUE, rows |-> FederalRows])

\* self.results.append(clinic_data) for one clinic page of one search
Collect(doc, url, idx) ==
    /\ pc = "constructed"
    /\ Len(results) < MaxRecords
    /\ LET entry == state_suburb_list[idx]
       IN results' = Append(results,
              get_clinic_details(variant, doc, url, entry.postcode, entry.suburb,
                                 entry.state_electorate, federal_mapping))
    /\ UNCHANGED <<variant, pc, state_csv, federal_csv, state_mapping,
                   state_suburb_list, federal_mapping, i, clinic_links, j, output,
                   last, call, arg, ret>>

\* save_results(), a first or a second time
CallSave ==
    /\ pc \in {"constructed", "saved"}
    /\ SaveResults
    /\ pc' = IF variant = "FIXED" /\ results = <<>> THEN "raised"
             ELSE IF pc = "saved" THEN "saved again" ELSE "saved"
    /\ UNCHANGED <<variant, state_csv, federal_csv, state_mapping,
                   state_suburb_list, federal_mapping, i, clinic_links, j,
                   call, arg, ret>>

NextSave ==
    \/ \E doc \in SaveDocs, url \in SaveUrls, idx \in 1..2 : Collect(doc, url, idx)
    \/ CallSave

SpecSave == InitSave /\ [][NextSave]_vars

\* the positions of the list with the url of position k
SameUrl(list, k) == {m \in 1..Len(list) : list[m].url = list[k].url}

\* the later records of a url, which the save discards
Duplicates(list) == {k \in 1..Len(list) : First(SameUrl(list, k)) # k}

\* C5: after save_results the retained records hold, for each url of the
\* input, one record, the first of the input with that url, and nothing
\* else; the count drops by the number of duplicates
C5_FirstSeenWins ==
    last.op = "save" =>
        /\ \A k \in 1..Len(last.input) :
              /\ Cardinality({r \in 1..Len(results) :
                                 results[r].url = last.input[k].url}) = 1
              /\ \A r \in 1..Len(results) :
                    results[r].url = last.input[k].url
                       => results[r] = last.input[First(SameUrl(last.input, k))]
        /\ \A r \in 1..Len(results) :
              \E k \in 1..Len(last.input) : last.input[k].url = results[r].url
        /\ Len(results) = Len(last.input) - Cardinality(Duplicates(last.input))
        /\ output[1].summary.total_clinics = Len(results)

\* two records of one url with different phones went in, one came out
C5_Witness ==
    /\ last.op = "save"
    /\ \E k \in 1..Len(last.input), m \in 1..Len(last.input) :
          /\ k < m
          /\ last.input[k].url = last.input[m].url
          /\ last.input[k].phone # last.input[m].phone
    /\ Len(results) = Len(last.input) - 1

\* the axes of the output document
Axes ==
    IF variant = "FIXED"
    THEN {[field |-> "state_electorate", stats |-> "state_electorate_stats"]}
    ELSE {[field |-> "state_electorate", stats |-> "state_electorate_stats"],
          [field |-> "federal_electorate", stats |-> "federal_electorate_stats"]}

\* the retained records of a district
Assigned(field, e) == {k \in 1..Len(results) : results[k][field] = e}

\* p, in tenths of a percent, is b / t * 100 rounded to one decimal place
RoundedTo1(p, b, t) ==
    /\ 2 * (p * t - 1000 * b) <= t
    /\ 2 * (1000 * b - p * t) <= t

\* C6: every bucket of every axis of the output counts the retained records
\* of its district, those of them that are bulk billed, and their share in
\* percent rounded to one decimal place; 3 of 7 is 42.9
C6_BucketStatistics ==
    /\ Percentage(3, 7) = 429
    /\ output # <<>> =>
          \A axis \in Axes :
              LET stats == output[1][axis.stats]
              IN /\ DOMAIN stats = {results[k][axis.field] : k \in 1..Len(results)}
                 /\ \A e \in DOMAIN stats :
                       /\ stats[e].total_clinics
                             = Cardinality(Assigned(axis.field, e))
                       /\ stats[e].bulk_billed_clinics
                             = Cardinality({k \in Assigned(axis.field, e) :
                                               results[k].is_bulk_billed})
                       /\ RoundedTo1(stats[e].percentage,
                                     stats[e].bulk_billed_clinics,
                                     stats[e].total_clinics)

\* a district with three clinics, two of them bulk billed: 66.7
C6_Witness ==
    /\ output # <<>>
    /\ \E e \in DOMAIN output[1].state_electorate_stats :
          output[1].state_electorate_stats[e]
             = [total_clinics |-> 3, bulk_billed_clinics |-> 2, percentage |-> 667]

-----------------------------------------------------------------------------
(* Claims about the run *)

\* C7: every district of a record is the resolver's answer for the suburb and
\* postcode of the record, which are re-derived from the address of the page
C7_DistrictsFromPageAddress ==
    \A k \in 1..Len(results) :
        /\ results[k].state_electorate
              = get_state_electorate(state_mapping, results[k].postcode,
                                     results[k].suburb)
        /\ variant # "FIXED" =>
              results[k].federal_electorate
                 = get_federal_electorate(federal_mapping, results[k].postcode,
                                          results[k].suburb)

\* C9: a clinic page that cannot be fetched or parsed adds no record and
\* leaves the records as they are; the loop goes on with the next link of the
\* search, and after the last link run() goes on with the next entry; a run
\* that is done has gone through every entry
C9_ClinicFaultSkipped ==
    [][/\ (pc = "clinics" /\ last'.op = "clinic" /\ last'.outcome \in ClinicFailures)
           => /\ results' = results
              /\ output' = output
              /\ clinic_links' = clinic_links
              /\ state_suburb_list' = state_suburb_list
              /\ j' = j + 1
              /\ IF j < Len(clinic_links) THEN pc' = "clinics" /\ i' = i
                                          ELSE pc' = "run" /\ i' = i + 1
       /\ pc' = "done" => i' = Len(state_suburb_list') + 1]_vars

\* the first of two links of the second entry has failed, with a record of the
\* first entry collected and the second link still to fetch
C9_Witness ==
    /\ last.op = "clinic"
    /\ last.outcome \in ClinicFailures
    /\ last.idx = 2
    /\ last.link = 1
    /\ pc = "clinics"
    /\ j = 2
    /\ Len(clinic_links) = 2
    /\ results # <<>>

\* C10: a search that ends in 404, in another error status or in a transport
\* failure fetches no clinic page and leaves the records as they are; run()
\* goes on with the next entry
C10_SearchFaultSkipped ==
    [][(pc = "run" /\ last'.op = "search" /\ last'.outcome \in SearchFailures)
          => /\ results' = results
             /\ output' = output
             /\ clinic_links' = clinic_links
             /\ state_suburb_list' = state_suburb_list
             /\ pc' = "run"
             /\ i' = i + 1]_vars

\* the search of the first entry has failed, records or not, and the second
\* entry is next
C10_Witness ==
    /\ last.op = "search"
    /\ last.outcome \in SearchFailures
    /\ last.idx = 1
    /\ pc = "run"
    /\ i = 2
    /\ i <= Len(state_suburb_list)

-----------------------------------------------------------------------------
(* get_clinic_details, applied to pages built from a few parts and reached  *)
(* through any entry of the state table                                     *)

RecordAddressParts ==
    {<<>>,
     <<<<"12", " ", "Main", " ", "Street,", " ", "Perth", " ", "WA", " ", "6000">>>>,
     <<<<"12", " ", "Main", " ", "Street,", " ", "East", " ", "Perth", " ", "WA", " ",
         "6000">>>>,
     <<<<"12", " ", "Main", " ", "Street,", " ", "SUBIACO", " ", "WA", " ", "6008">>>>,
     <<<<"1234", " ", "Main", " ", "Street,", " ", "EAST", " ", "PERTH", " ", "WA", " ",
         "6000">>>>,
     <<<<"12", " ", "Main", " ", "Street,", " ", "Perth", " ", "WA">>>>}

RecordTelParts ==
    {<<>>,
     <<<<"0893001234">>>>,
     <<<<"08", " ", "9300", " ", "1234">>, <<"0893001234">>>>}

RecordBodyParts ==
    {<<"bulk billing only">>,
     <<"Mixed Billing", " ", "Phone:", " ", "08", " ", "9300", " ", "1234">>,
     <<"Clinic">>}

RecordDocs ==
    {[EmptyDoc EXCEPT !.h = <<<<"Clinic">>>>, !.address = a, !.tel = t, !.body = b] :
        a \in RecordAddressParts, t \in RecordTelParts, b \in RecordBodyParts}

InitRecord ==
    \E v \in Variants, n \in 1..Len(StateRows) :
        Constructed(v, [ok |-> TRUE, rows |-> SubSeq(StateRows, 1, n)],
                    [ok |-> TRUE, rows |-> FederalRows])

\* get_clinic_details(clinic_url, postcode, suburb, state_electorate) as
\* search_gp_clinics calls it for the entry idx of the table
CallDetails(doc, url, idx) ==
    /\ pc = "constructed"
    /\ call = "none"
    /\ idx \in 1..Len(state_suburb_list)
    /\ call' = "get_clinic_details"
    /\ arg' = [doc |-> doc, url |-> url,
               search_postcode |-> state_suburb_list[idx].postcode,
               search_suburb |-> state_suburb_list[idx].suburb,
               state_electorate |-> state_suburb_list[idx].state_electorate]
    /\ ret' = get_clinic_details(variant, doc, url, state_suburb_list[idx].postcode,
                                 state_suburb_list[idx].suburb,
                                 state_suburb_list[idx].state_electorate,
                                 federal_mapping)
    /\ UNCHANGED program

NextRecord ==
    \E doc \in RecordDocs, url \in Urls, idx \in 1..Len(StateRows) :
        CallDetails(doc, url, idx)

SpecRecord == InitRecord /\ [][NextRecord]_vars

\* the page of the end-to-end example
DocPerth ==
    [EmptyDoc EXCEPT
        !.h = <<<<"Clinic">>>>,
        !.address = <<<<"12", " ", "Main", " ", "Street,", " ", "Perth", " ", "WA", " ",
                        "6000">>>>,
        !.tel = <<<<"0893001234">>>>,
        !.body = <<"bulk billing only">>]

\* C11: with the state table mapping 6000 + Perth to Perth, the page with the
\* address "12 Main Street, Perth WA 6000", the phone link 0893001234 and the
\* text "bulk billing only" gives a record with suburb Perth, postcode 6000,
\* district Perth, phone 0893001234, bulk billed, fully bulk billed, through
\* whichever search the page was reached
C11_PerthRecord ==
    (/\ call = "get_clinic_details"
     /\ arg.doc = DocPerth
     /\ get_state_electorate(state_mapping, "6000", <<"Perth">>) = "Perth")
    => /\ ret.suburb = <<"Perth">>
       /\ ret.postcode = "6000"
       /\ ret.state_electorate = "Perth"
       /\ ret.phone = <<"0893001234">>
       /\ ret.is_bulk_billed
       /\ ret.billing_status = "100% Bulk Billed"

-----------------------------------------------------------------------------
(* Claims about the order of the collected records *)

\* the orders of a list of n records
Orders(n) == {p \in [1..n -> 1..n] : \A a \in 1..n, b \in 1..n : p[a] = p[b] => a = b}

Reordered(list, p) == [k \in 1..Len(list) |-> list[p[k]]]

\* what save_results makes of a list: the retained records as a set, the
\* summary, and the statistics of every axis
Aggregate(list) ==
    LET kept == RemoveDuplicates(list)
        out == Output(variant, kept)
    IN [retained |-> {kept[k] : k \in 1..Len(kept)},
        summary |-> out.summary,
        stats |-> [axis \in Axes |-> out[axis.stats]]]

\* C12 as stated: every order of the collected records gives the same
\* retained records, statistics and summary
C12_AnyOrder ==
    last.op = "save" =>
        \A p \in Orders(Len(last.input)) :
            Aggregate(Reordered(last.input, p)) = Aggregate(last.input)

\* the records collected under one url are all the same record
EqualDuplicates(list) ==
    \A k \in 1..Len(list), m \in 1..Len(list) :
        list[k].url = list[m].url => list[k] = list[m]

\* C12 amended: when the records collected under one url are equal, every
\* order of the collected records gives the retained records, the statistics
\* and the summary that the save has written
C12_OrderOfEqualDuplicates ==
    (last.op = "save" /\ EqualDuplicates(last.input)) =>
        /\ {results[k] : k \in 1..Len(results)} = Aggregate(last.input).retained
        /\ output[1].summary = Aggregate(last.input).summary
        /\ \A axis \in Axes : output[1][axis.stats] = Aggregate(last.input).stats[axis]
        /\ \A p \in Orders(Len(last.input)) :
              Aggregate(Reordered(last.input, p)) = Aggregate(last.input)

\* a clinic collected twice with the same record, and a clinic of another
\* district and another billing status, saved
C12_Witness ==
    /\ last.op = "save"
    /\ EqualDuplicates(last.input)
    /\ \E k \in 1..Len(last.input), m \in 1..Len(last.input), n \in 1..Len(last.input) :
          /\ k < m
          /\ last.input[k] = last.input[m]
          /\ last.input[n].state_electorate # last.input[k].state_electorate
          /\ last.input[n].is_bulk_billed # last.input[k].is_bulk_billed
    /\ Len(results) = 2

-----------------------------------------------------------------------------
(* Claims about the reference tables and the output of the run *)

\* C13: when the state file cannot be loaded the process exits in __init__ and
\* there is no search, no fetch, no record and no output; when it is loaded the
\* process does not exit, and when only the federal file cannot be loaded the
\* federal district of every record, and so every federal bucket, is "Unknown"
C13_LoadOutcomeDecidesMode ==
    /\ (~state_csv.ok /\ pc # "construct") =>
          /\ pc = "exited"
          /\ last = NoEvent
          /\ results = <<>>
          /\ clinic_links = <<>>
          /\ output = <<>>
    /\ state_csv.ok => pc # "exited"
    /\ (state_csv.ok /\ variant # "FIXED" /\ ~federal_csv.ok) =>
          /\ \A k \in 1..Len(results) : results[k].federal_electorate = Unknown
          /\ output # <<>> => DOMAIN output[1].federal_electorate_stats = {Unknown}

\* a run without the federal file that is done and has saved a clinic of
\* Subiaco 6008, which the federal file lists
C13_Witness ==
    /\ state_csv.ok
    /\ variant # "FIXED"
    /\ ~federal_csv.ok
    /\ pc = "done"
    /\ output # <<>>
    /\ \E k \in 1..Len(results) :
          /\ results[k].postcode = "6008"
          /\ Normalize(results[k].suburb) = <<"subiaco">>
          /\ results[k].federal_electorate = Unknown

\* C14: the document is written in one step only, the one that ends a run()
\* whose loop has gone through every entry and has collected a record; it is
\* not written before and not written again; a run() that ends with no record
\* writes nothing and gives the warning
C14_OutputWrittenOnce ==
    /\ [](output # <<>> =>
             /\ pc = "done"
             /\ i = Len(state_suburb_list) + 1
             /\ results # <<>>
             /\ last.op = "save")
    /\ [][/\ output' # output =>
                /\ output = <<>>
                /\ pc = "run"
                /\ i > Len(state_suburb_list)
                /\ results # <<>>
                /\ pc' = "done"
          /\ (pc' = "done" /\ results = <<>>) =>
                /\ output' = <<>>
                /\ last'.op = "warning"]_vars

\* a run over two entries that is done and has written its two clinics
C14_Witness ==
    /\ pc = "done"
    /\ Len(state_suburb_list) = 2
    /\ output # <<>>
    /\ output[1].summary.total_clinics = 2
    /\ last.op = "save"

-----------------------------------------------------------------------------
(* Claims about the record of one page *)

\* the five methods on the page of the call
MethodsOnPage ==
    <<Method1(arg.doc), Method2(arg.doc), Method3(arg.doc), Method4(arg.doc),
      Method5(arg.doc)>>

\* C15: the extractor returns None exactly when its five methods fail, and a
\* page that yields no address gives a record whose address is the placeholder
\* "<search suburb>, WA <search postcode>" and whose suburb and postcode are
\* the ones of the search
C15_AbsentPlaceholder ==
    call = "get_clinic_details" =>
        /\ variant = "BETTER_ADDRESSES" =>
              (~extract_address_better(arg.doc).ok
                  <=> \A m \in 1..5 : ~MethodsOnPage[m].ok)
        /\ AddressText(variant, arg.doc) = <<>> =>
              /\ ret.address = arg.search_suburb \o <<",", " ", "WA", " ",
                                                      arg.search_postcode>>
              /\ ret.suburb = arg.search_suburb
              /\ ret.postcode = arg.search_postcode

\* the positions of the standalone 4-digit runs of a text
FourDigitRuns(text) == {k \in 1..Len(text) : Digits(text[k]) = 4}

\* C16: with an address, the postcode of the record is the first standalone
\* 4-digit run of the address, whatever the postcode of the search; with no
\* such run in the address, or with no address, it is the postcode of the
\* search
C16_PostcodeFromAddress ==
    call = "get_clinic_details" =>
        LET address_text == AddressText(variant, arg.doc)
        IN ret.postcode =
              IF address_text # <<>> /\ FourDigitRuns(address_text) # {}
              THEN address_text[First(FourDigitRuns(address_text))]
              ELSE arg.search_postcode

\* an address with two 4-digit runs, the street number first, on a page
\* reached through a search of another postcode
C16_Witness ==
    /\ call = "get_clinic_details"
    /\ Cardinality(FourDigitRuns(AddressText(variant, arg.doc))) = 2
    /\ arg.search_postcode = "6008"
    /\ ret.postcode = "1234"

\* words that start with a capital letter, the region code apart
Capitalized ==
    {"Perth", "Subiaco", "East", "Main", "St", "PERTH", "SUBIACO", "EAST", "MAIN", "ST"}

RECURSIVE NameStart(_, _)
\* the start of the run of capitalized words that ends with the word at k
NameStart(text, k) ==
    IF k > 2 /\ text[k - 1] = " " /\ text[k - 2] \in Capitalized
    THEN NameStart(text, k - 2) ELSE k

\* the capitalized name directly before the first "WA" + 4-digit postcode
CapitalizedSuburb(text) ==
    LET hits == {w \in 3..Len(text) :
                    /\ text[w] = "WA"
                    /\ text[w - 1] = " "
                    /\ text[w - 2] \in Capitalized
                    /\ PostcodeAfter(text, w) # 0}
    IN IF hits = {} THEN Absent
       ELSE Some(SubSeq(text, NameStart(text, First(hits) - 2), First(hits) - 2))

\* C17: with an address that has a capitalized suburb name directly before
\* "WA" and a 4-digit postcode, the suburb of the record is that name,
\* whatever the suburb of the search; otherwise it is the suburb of the search
C17_CapitalizedSuburbOverrides ==
    call = "get_clinic_details" =>
        LET address_text == AddressText(variant, arg.doc)
        IN ret.suburb =
              IF address_text # <<>> /\ CapitalizedSuburb(address_text).ok
              THEN CapitalizedSuburb(address_text).text
              ELSE arg.search_suburb

\* C18: the phone of the record is the text of the first tel: link; with no
\* such link, the first phone pattern of the page text; with neither, "N/A"
C18_PhoneLinkThenPattern ==
    call = "get_clinic_details" =>
        ret.phone =
            IF arg.doc.tel # <<>> THEN Strip(arg.doc.tel[1])
            ELSE IF PhoneMatch(PageText(arg.doc)).ok
                 THEN PhoneMatch(PageText(arg.doc)).text
                 ELSE <<"N/A">>

-----------------------------------------------------------------------------
(* Claims about the save step and the course of the run *)

\* C19: no call of save_results, the one on an empty list included, divides by
\* zero: every bucket it makes holds a record and no other divisor is zero
C19_NoDivisionByZero ==
    last.op = "save" =>
        /\ last.outcome # "ZeroDivisionError"
        /\ \A e \in DOMAIN output[1].by_state_electorate :
              output[1].by_state_electorate[e] # <<>>
        /\ variant # "FIXED" =>
              \A e \in DOMAIN output[1].by_federal_electorate :
                  output[1].by_federal_electorate[e] # <<>>

\* C20: whatever the outcome of each fetch, run() searches the entries of the
\* table one at a time: a search is made for the entry i of the loop, which
\* then moves on by one, at once or after the clinic pages of the search, each
\* fetched in its turn; the run ends, and when it is done it has gone through
\* every entry
C20_EveryEntryOnceInOrder ==
    /\ [][/\ i' \in {i, i + 1}
          /\ pc # "construct" => state_suburb_list' = state_suburb_list
          /\ last'.op = "search" =>
                /\ pc = "run"
                /\ i <= Len(state_suburb_list)
                /\ last'.idx = i
                /\ last.op \in {"search", "clinic"} => last.idx = i - 1
                /\ \/ pc' = "run" /\ i' = i + 1
                   \/ pc' = "clinics" /\ i' = i /\ j' = 1 /\ clinic_links' # <<>>
          /\ last'.op = "clinic" =>
                /\ pc = "clinics"
                /\ last'.idx = i
                /\ last'.link = j
                /\ j <= Len(clinic_links)
                /\ j' = j + 1
                /\ clinic_links' = clinic_links
                /\ IF j < Len(clinic_links) THEN pc' = "clinics" /\ i' = i
                                            ELSE pc' = "run" /\ i' = i + 1
          /\ pc' = "done" => i = Len(state_suburb_list) + 1]_vars
    /\ <>(pc \in {"done", "exited"})

\* a run over two entries that is done with nothing found
C20_Witness ==
    /\ pc = "done"
    /\ Len(state_suburb_list) = 2
    /\ i = 3
    /\ last.op = "warning"

-----------------------------------------------------------------------------
(* Claims about the output document *)

\* C21: a second call of save_results, with no record appended since the
\* first, leaves the retained records as they are and writes the document of
\* the first call again: the same buckets, statistics and summary; the second
\* call finds nothing to discard
C21_SaveIdempotent ==
    /\ [][(pc = "saved" /\ last'.op = "save") =>
             /\ results' = results
             /\ output' = output
             /\ last'.input = results]_vars
    /\ [](pc = "saved again" =>
             /\ last.input = results
             /\ output # <<>>
             /\ output[1].summary.total_clinics = Len(results))

\* a second save of two clinics of two districts, one of them bulk billed
C21_Witness ==
    /\ pc = "saved again"
    /\ last.op = "save"
    /\ Len(results) = 2
    /\ results[1].state_electorate # results[2].state_electorate
    /\ output[1].summary.bulk_billed_clinics = 1
    /\ Cardinality(DOMAIN output[1].state_electorate_stats) = 2

\* the buckets of an axis of the output, and its count of districts
Buckets(axis) ==
    IF axis.field = "state_electorate" THEN output[1].by_state_electorate
    ELSE output[1].by_federal_electorate

Covered(axis) ==
    IF axis.field = "state_electorate" THEN output[1].summary.state_electorates_covered
    ELSE output[1].summary.federal_electorates_covered

\* where the retained record k lies in the buckets
Places(by, k) == {p \in (DOMAIN by) \X (1..Len(results)) :
                    p[2] <= Len(by[p[1]]) /\ by[p[1]][p[2]] = results[k]}

RECURSIVE SumOver(_, _, _)
\* the sum of a field of the statistics over the districts S
SumOver(stats, field, S) ==
    IF S = {} THEN 0
    ELSE LET e == CHOOSE d \in S : TRUE
         IN stats[e][field] + SumOver(stats, field, S \ {e})

\* C22: on each axis of the output every retained record lies in one bucket,
\* at one place of it, the bucket of its district, and the buckets hold nothing
\* else; the totals of the axis add up to the total of the summary, its
\* bulk-billed counts to the bulk-billed count of the summary, and the
\* districts counted as covered are the district values of the records
C22_BucketsPartition ==
    output # <<>> =>
        \A axis \in Axes :
            LET by == Buckets(axis)
                stats == output[1][axis.stats]
            IN /\ \A k \in 1..Len(results) :
                      /\ Cardinality(Places(by, k)) = 1
                      /\ \A p \in Places(by, k) : p[1] = results[k][axis.field]
               /\ \A e \in DOMAIN by :
                      \A m \in 1..Len(by[e]) :
                          \E k \in 1..Len(results) : by[e][m] = results[k]
               /\ DOMAIN stats = DOMAIN by
               /\ SumOver(stats, "total_clinics", DOMAIN stats)
                     = output[1].summary.total_clinics
               /\ SumOver(stats, "bulk_billed_clinics", DOMAIN stats)
                     = output[1].summary.bulk_billed_clinics
               /\ Covered(axis)
                     = Cardinality({results[k][axis.field] : k \in 1..Len(results)})
               /\ output[1].summary.total_clinics = Len(results)

\* three retained clinics, two of one state district and one of another, two
\* of the three bulk billed
C22_Witness ==
    /\ output # <<>>
    /\ Len(results) = 3
    /\ output[1].summary.bulk_billed_clinics = 2
    /\ output[1].summary.state_electorates_covered = 2
    /\ \E e \in DOMAIN output[1].by_state_electorate :
          Len(output[1].by_state_electorate[e]) = 2

\* the flag of a record or of an outcome of the chain agrees with its status
FlagAgrees(c) ==
    /\ c.billing_status
          \in {"100% Bulk Billed", "Mixed Billing", "Private Billing", "Unknown"}
    /\ c.is_bulk_billed <=> c.billing_status = "100% Bulk Billed"

\* C23: in every state of the run, before and after save_results, each record
\* of the results and of the buckets of the output has is_bulk_billed true
\* exactly when its billing_status is "100% Bulk Billed"; so has the outcome of
\* the chain on a page with any one of the keywords, those of Mixed Billing
\* and Private Billing included
C23_FlagMatchesStatus ==
    /\ \A k \in 1..Len(results) : FlagAgrees(results[k])
    /\ output # <<>> =>
          \A e \in DOMAIN output[1].by_state_electorate :
              \A m \in 1..Len(output[1].by_state_electorate[e]) :
                  FlagAgrees(output[1].by_state_electorate[e][m])
    /\ \A k \in 1..Len(Keywords) : FlagAgrees(ClassifyBilling(<<Keywords[k]>>))
    /\ ClassifyBilling(<<"fees apply">>)
          = [is_bulk_billed |-> FALSE, billing_status |-> "Private Billing"]

\* a finished run that saved a bulk-billed clinic and one with mixed billing
C23_Witness ==
    /\ pc = "done"
    /\ output # <<>>
    /\ output[1].summary.bulk_billed_clinics = 1
    /\ \E k \in 1..Len(results) :
          results[k].is_bulk_billed /\ results[k].billing_status = "100% Bulk Billed"
    /\ \E k \in 1..Len(results) :
          ~results[k].is_bulk_billed /\ results[k].billing_status = "Mixed Billing"

====
